---- MODULE Spec2Model ----
(***************************************************************************)
(* Temporal cross-validation engine of analysis/ph_analysis.py.            *)
(*                                                                         *)
(* A data frame is a sequence of rows (records) in frame order; a row's    *)
(* field `id` is its data-frame index and `as_of_date` is the ISO week     *)
(* number of its date, the only attribute of the date the module reads     *)
(* (`.week`, `.dt.week`).  Boolean-mask selection `df.loc[mask]` keeps the *)
(* rows that satisfy the mask, in frame order.                             *)
(*                                                                         *)
(* Five specifications share the variables:                                *)
(*   SpecSplit   timesplit_data followed by time_cv_split                  *)
(*   SpecSim     simulate, with normalize_prep_eval_data                   *)
(*   SpecCV      cross_validate, run_grid_search and build_classifier,     *)
(*               called twice on the same arguments                        *)
(*   SpecSelect  find_best_model and the selection of run_temporal_cv on   *)
(*               an evaluation table with numeric metrics                  *)
(*   SpecImp     get_feature_importance                                    *)
(* The estimators, the scaler and the polynomial expander are libraries:   *)
(* in SpecCV a prediction is the term of what determines it, in SpecSelect *)
(* the residuals of the predictions are inputs.                            *)
(***************************************************************************)
EXTENDS Integers, Sequences, FiniteSets, TLC

VARIABLES
    pc,               \* position of the running pipeline
    dataset,          \* the frame returned by bpc.prep_df_for_analysis()
    train,            \* timesplit_data: train
    test,             \* timesplit_data: test
    train_cv_splits,  \* time_cv_split: the list of folds
    feat_dict,        \* simulate: the overrides, as the items of the dict
    sim_test,         \* simulate: its local frame `test`
    sim_train,        \* simulate: the training rows handed to fit_and_predict
    temporal_splits,  \* cross_validate: the folds
    degrees,          \* cross_validate: the degrees of the expansions
    model_keys,       \* models.keys(), in the order of the dict
    grid,             \* model family -> list of parameter dicts (their items)
    models,           \* the shared model instances: family -> its parameters
    fi,               \* cross_validate: index of the fold of the outer loop
    di,               \* cross_validate: index of the degree of the inner loop
    ci,               \* run_grid_search: index of the (model, param) cell
    design,           \* cross_validate: X_train, y_train, X_test, y_test
    model_perf,       \* run_grid_search: the dict of evaluation records
    cv_eval,          \* cross_validate: the list of performance tables
    cv_df,            \* cross_validate: the evaluation table returned
    run,              \* number of the call of cross_validate under way
    first_cv_df,      \* the evaluation table the first call returned
    elapsed,          \* stop - start of the timer, in this call
    fit_raised,       \* a fit or predict of this call has raised
    best_from_feat,   \* run_temporal_cv: the frame find_best_model returned
    best_type,        \* run_temporal_cv: the tally, sorted by count
    best_models,      \* run_temporal_cv: the winning configuration
    features,         \* get_feature_importance: the feature names
    degree,           \* get_feature_importance: <<>> for None, <<d>> for d
    test_model,       \* get_feature_importance: the family of its model
    best_params,      \* get_feature_importance: its argument `params`
    coef,             \* test_model.coef_ of the fit, in thousandths
    feature_list,     \* get_feature_importance: the labels it builds
    key_importances   \* get_feature_importance: the frame returned

splitVars == <<train, test, train_cv_splits>>
simVars == <<feat_dict, sim_test, sim_train>>
cvInputs == <<temporal_splits, degrees, model_keys, grid>>
cvVars == <<cvInputs, models, fi, di, ci, design, model_perf, cv_eval, cv_df,
            run, first_cv_df, elapsed, fit_raised>>

selVars == <<best_from_feat, best_type, best_models>>

impVars == <<features, degree, test_model, best_params, coef, feature_list,
             key_importances>>

vars == <<pc, dataset, splitVars, simVars, cvVars, selVars, impVars>>

----------------------------------------------------------------------------
(* Bounds of the model                                                      *)

MaxRows == 5
MaxWeek == 5
MaxSimRows == 3
MaxCases == 1

Weeks == 1..MaxWeek

None == "None"

\* The state of cross-validation and selection before any call of
\* cross_validate.
CvIdle ==
    /\ temporal_splits = <<>>
    /\ degrees = <<>>
    /\ model_keys = <<>>
    /\ grid = <<>>
    /\ models = <<>>
    /\ fi = 0
    /\ di = 0
    /\ ci = 0
    /\ design = <<>>
    /\ model_perf = <<>>
    /\ cv_eval = <<>>
    /\ cv_df = <<>>
    /\ run = 0
    /\ first_cv_df = <<>>
    /\ elapsed = 0
    /\ fit_raised = FALSE
    /\ best_from_feat = <<>>
    /\ best_type = <<>>
    /\ best_models = <<>>

\* The state of the feature-importance extractor before any call of it.
ImpIdle ==
    /\ features = <<>>
    /\ degree = <<>>
    /\ test_model = None
    /\ best_params = <<>>
    /\ coef = <<>>
    /\ feature_list = <<>>
    /\ key_importances = <<>>

----------------------------------------------------------------------------
(* Frames                                                                   *)

\* A row of the prepared data set.
Row(i, w, total, new, lag) ==
    [id |-> i, as_of_date |-> w, total_prisoner_cases |-> total,
     new_prisoner_cases |-> new, lag_prisoner_cases |-> lag]

\* Week sequences sorted ascending by date (the data set is sorted by
\* as_of_date); weeks may repeat (several facilities a week) and may be absent.
SortedWeeks(n) ==
    {ws \in [1..n -> Weeks] : \A i \in 1..(n - 1) : ws[i] <= ws[i + 1]}

\* df["as_of_date"].iloc[0].week and .iloc[-1].week
FirstWeek(df) == df[1].as_of_date
LastWeek(df) == df[Len(df)].as_of_date

WeeksOf(df) == {df[i].as_of_date : i \in 1..Len(df)}
IdsOf(df) == {df[i].id : i \in 1..Len(df)}

----------------------------------------------------------------------------
(* timesplit_data                                                           *)

TimesplitTrain(df, latest_week) ==
    LET Before(r) == r.as_of_date < latest_week IN SelectSeq(df, Before)

TimesplitTest(df, latest_week) ==
    LET At(r) == r.as_of_date = latest_week IN SelectSeq(df, At)

\* An empty frame makes .iloc[-1] raise IndexError; any other frame is split,
\* whatever the number of distinct weeks it holds.
TimesplitData ==
    /\ pc = "start"
    /\ \/ /\ dataset = <<>>
          /\ pc' = "raised"
          /\ UNCHANGED <<train, test>>
       \/ /\ dataset # <<>>
          /\ train' = TimesplitTrain(dataset, LastWeek(dataset))
          /\ test' = TimesplitTest(dataset, LastWeek(dataset))
          /\ pc' = "timesplit_done"
    /\ UNCHANGED <<dataset, train_cv_splits, simVars, cvVars, selVars, impVars>>

----------------------------------------------------------------------------
(* time_cv_split                                                            *)

CvWeeksWide(earliest, latest) ==
    [k \in 1..(latest - earliest) |-> earliest + k]

\* range(earliest + 1, latest) as a sequence
CvWeeks(earliest, latest) ==
    [k \in 1..(latest - earliest - 1) |-> earliest + k]

CvTrainLeaky(df, week, earliest) ==
    LET Keep(r) == r.as_of_date <= week IN SelectSeq(df, Keep)

CvTrain(df, week, earliest) ==
    LET Keep(r) == r.as_of_date <= week /\ r.as_of_date # earliest
    IN  SelectSeq(df, Keep)

CvTest(df, week) ==
    LET Keep(r) == r.as_of_date = week + 1 IN SelectSeq(df, Keep)

CvFold(df, week, earliest) ==
    [test_week |-> week + 1,
     train |-> CvTrain(df, week, earliest),
     test |-> CvTest(df, week)]

TimeCvSplitOf(df) ==
    LET earliest == FirstWeek(df)
        weeks == CvWeeks(earliest, LastWeek(df))
    IN  [k \in 1..Len(weeks) |-> CvFold(df, weeks[k], earliest)]

\* The caller hands timesplit_data's train to time_cv_split; an empty train
\* makes .iloc[0] raise IndexError.
TimeCvSplit ==
    /\ pc = "timesplit_done"
    /\ \/ /\ train = <<>>
          /\ pc' = "raised"
          /\ UNCHANGED train_cv_splits
       \/ /\ train # <<>>
          /\ train_cv_splits' = TimeCvSplitOf(train)
          /\ pc' = "cv_split_done"
    /\ UNCHANGED <<dataset, train, test, simVars, cvVars, selVars, impVars>>

----------------------------------------------------------------------------
(* Specification of the temporal splitter                                   *)

InitSplit ==
    /\ pc = "start"
    /\ \E n \in 0..MaxRows : \E ws \in SortedWeeks(n) :
          dataset = [i \in 1..n |-> Row(i, ws[i], 0, 0, 0)]
    /\ train = None
    /\ test = None
    /\ train_cv_splits = None
    /\ feat_dict = None
    /\ sim_test = <<>>
    /\ sim_train = <<>>
    /\ CvIdle
    /\ ImpIdle

NextSplit == TimesplitData \/ TimeCvSplit

SpecSplit == InitSplit /\ [][NextSplit]_vars

----------------------------------------------------------------------------
(* Properties of the temporal splitter                                      *)

Folds == 1..Len(train_cv_splits)

\* The rows of frame df whose week satisfies the set W, as a set of ids.
IdsInWeeks(df, W) == {df[i].id : i \in {j \in 1..Len(df) : df[j].as_of_date \in W}}

\* A frame keeps the order of the frame it was cut from.
InFrameOrder(df) == \A i \in 1..(Len(df) - 1) : df[i].id < df[i + 1].id

\* C1: in every fold of time_cv_split every training row has a week
\* <= test_week - 1, and no training row is of the earliest week of the
\* table (which is also the earliest week of the whole data set).
C1_TrainBeforeTestWeek ==
    pc = "cv_split_done" =>
        \A k \in Folds :
            \A i \in 1..Len(train_cv_splits[k].train) :
                LET r == train_cv_splits[k].train[i] IN
                /\ r.as_of_date <= train_cv_splits[k].test_week - 1
                /\ r.as_of_date # FirstWeek(train)
                /\ r.as_of_date # FirstWeek(dataset)

\* A table with rows in its earliest week and in the test week and after
\* has been split into two folds whose training parts are not empty.
C1_Witness ==
    /\ pc = "cv_split_done"
    /\ Len(train_cv_splits) >= 2
    /\ \A k \in Folds : train_cv_splits[k].train # <<>>
    /\ \E i \in 1..Len(train) :
           train[i].as_of_date > train_cv_splits[1].test_week

\* C2: in every fold fold.test holds exactly the rows of the input table
\* whose week is fold.test_week, and fold.test is not empty.
C2_TestExactAndNonEmpty ==
    pc = "cv_split_done" =>
        \A k \in Folds :
            /\ IdsOf(train_cv_splits[k].test)
                   = IdsInWeeks(train, {train_cv_splits[k].test_week})
            /\ InFrameOrder(train_cv_splits[k].test)
            /\ train_cv_splits[k].test # <<>>

\* C3 as stated: one fold per integer week w strictly between the earliest
\* and the latest week, in increasing order, with test_week = w + 1 and
\* train = rows of week <= w but for the earliest week; and a data set of
\* the weeks 1 to 4 gives exactly the two folds (3, {2}, {3}), (4, {2,3}, {4}).
C3_FoldsOfDataset ==
    (pc = "cv_split_done" /\ WeeksOf(dataset) = 1..4) =>
        /\ Len(train_cv_splits) = 2
        /\ train_cv_splits[1].test_week = 3
        /\ WeeksOf(train_cv_splits[1].train) = {2}
        /\ WeeksOf(train_cv_splits[1].test) = {3}
        /\ train_cv_splits[2].test_week = 4
        /\ WeeksOf(train_cv_splits[2].train) = {2, 3}
        /\ WeeksOf(train_cv_splits[2].test) = {4}

\* C3 amended: the folds are cut from the table handed to time_cv_split,
\* which is timesplit_data's train (the data set without its latest week):
\* one fold per integer w with earliest < w < latest of that table, in
\* increasing order of w, test_week = w + 1, train = its rows of week <= w
\* but for the earliest week.  A table of the weeks 1 to 4 gives the two
\* folds of the claim; a data set of the weeks 1 to 4 gives one fold only.
C3_FoldsOfTrainTable ==
    pc = "cv_split_done" =>
        LET earliest == FirstWeek(train)
            latest == LastWeek(train)
        IN  /\ Len(train_cv_splits)
                   = Cardinality((earliest + 1)..(latest - 1))
            /\ \A k \in Folds :
                   LET f == train_cv_splits[k]
                       w == earliest + k
                   IN  /\ f.test_week = w + 1
                       /\ IdsOf(f.train) = IdsInWeeks(train, (earliest + 1)..w)
                       /\ InFrameOrder(f.train)
                       /\ IdsOf(f.test) = IdsInWeeks(train, {w + 1})
            /\ WeeksOf(train) = 1..4 =>
                   /\ Len(train_cv_splits) = 2
                   /\ train_cv_splits[1].test_week = 3
                   /\ WeeksOf(train_cv_splits[1].train) = {2}
                   /\ WeeksOf(train_cv_splits[1].test) = {3}
                   /\ train_cv_splits[2].test_week = 4
                   /\ WeeksOf(train_cv_splits[2].train) = {2, 3}
                   /\ WeeksOf(train_cv_splits[2].test) = {4}
            /\ WeeksOf(dataset) = 1..4 =>
                   /\ Len(train_cv_splits) = 1
                   /\ train_cv_splits[1].test_week = 3
                   /\ WeeksOf(train_cv_splits[1].train) = {2}
                   /\ WeeksOf(train_cv_splits[1].test) = {3}

\* The table handed to time_cv_split holds the weeks 1 to 4 and two folds
\* came out.
C3_Witness ==
    /\ pc = "cv_split_done"
    /\ WeeksOf(train) = 1..4
    /\ Len(train_cv_splits) = 2

\* C9: the global split never returns a (train, test) pair for a data set
\* of fewer than 2 distinct weeks, and never returns an empty train.
C9_SplitNeedsTwoWeeks ==
    pc = "timesplit_done" =>
        /\ Cardinality(WeeksOf(dataset)) >= 2
        /\ train # <<>>

----------------------------------------------------------------------------
(* simulate, with normalize_prep_eval_data and fit_and_predict              *)

\* dataset[dataset['as_of_date'].dt.week != earliest]
DropWeek(df, week) ==
    LET Keep(r) == r.as_of_date # week IN SelectSeq(df, Keep)

SimRowLagAfterTotal(r) ==
    LET dated == [r EXCEPT !.as_of_date = r.as_of_date + 1]
        summed == [dated EXCEPT !.total_prisoner_cases =
                       dated.total_prisoner_cases + dated.new_prisoner_cases]
    IN  [summed EXCEPT !.lag_prisoner_cases = summed.total_prisoner_cases]

\* One row of the latest week turned into the simulated row: the date label
\* becomes week + 1, then lag := total, then total := total + new.
SimRow(r) ==
    LET dated == [r EXCEPT !.as_of_date = r.as_of_date + 1]
        lagged == [dated EXCEPT !.lag_prisoner_cases = dated.total_prisoner_cases]
    IN  [lagged EXCEPT !.total_prisoner_cases =
             lagged.total_prisoner_cases + lagged.new_prisoner_cases]

\* test[col] = val for one item of feat_dict, on one row
SetCol(r, item) == [c \in DOMAIN r |-> IF c = item[1] THEN item[2] ELSE r[c]]

RECURSIVE ApplyItems(_, _)
ApplyItems(r, items) ==
    IF items = <<>> THEN r
    ELSE ApplyItems(SetCol(r, Head(items)), Tail(items))

\* The local frame `test` of simulate after the loop over feat_dict.
SimTest(df, items) ==
    LET latest == TimesplitTest(df, LastWeek(df))
    IN  [i \in 1..Len(latest) |-> ApplyItems(SimRow(latest[i]), items)]

PrepTrainKeepsAll(df) == df

\* normalize_prep_eval_data, rows of X_train / y_train: the rows of its
\* `train` argument but for the earliest week of that argument.  The scaling
\* of clean_data.normalize changes values of the population columns, not
\* which rows there are; it is left out.
PrepTrainRows(df) == DropWeek(df, FirstWeek(df))

\* .iloc[0] and .iloc[-1] raise IndexError on a frame without rows, before
\* `test` is built; the estimator's fit raises ValueError on a training
\* matrix without rows, after `test` is built.
Simulate ==
    /\ pc = "start"
    /\ \/ /\ \/ dataset = <<>>
             \/ /\ dataset # <<>>
                /\ DropWeek(dataset, FirstWeek(dataset)) = <<>>
          /\ pc' = "raised_IndexError"
          /\ UNCHANGED <<sim_test, sim_train>>
       \/ /\ dataset # <<>>
          /\ LET kept == DropWeek(dataset, FirstWeek(dataset)) IN
             /\ kept # <<>>
             /\ sim_test' = SimTest(kept, feat_dict)
             /\ sim_train' = PrepTrainRows(kept)
             /\ pc' = IF PrepTrainRows(kept) = <<>>
                      THEN "raised_ValueError" ELSE "simulate_done"
    /\ UNCHANGED <<dataset, feat_dict, splitVars, cvVars, selVars, impVars>>

----------------------------------------------------------------------------
(* Specification of the forward simulator                                   *)

NewCases == {0, 1}

\* feat_dict.items(): no override, or overrides of columns of the row
FeatDicts ==
    {<<>>,
     <<<<"new_prisoner_cases", 0>>>>,
     <<<<"lag_prisoner_cases", 0>>, <<"total_prisoner_cases", 1>>>>}

InitSim ==
    /\ pc = "start"
    /\ \E n \in 0..MaxSimRows : \E ws \in SortedWeeks(n) :
       \E tot \in [1..n -> 0..MaxCases] : \E new \in [1..n -> NewCases] :
          dataset = [i \in 1..n |-> Row(i, ws[i], tot[i], new[i], 0)]
    /\ feat_dict \in FeatDicts
    /\ train = None
    /\ test = None
    /\ train_cv_splits = None
    /\ sim_test = <<>>
    /\ sim_train = <<>>
    /\ CvIdle
    /\ ImpIdle

NextSim == Simulate

SpecSim == InitSim /\ [][NextSim]_vars

\* The rows of the latest observed week, in frame order.
LatestRows == TimesplitTest(dataset, LastWeek(dataset))

\* C6: with an empty override mapping every simulated row has target =
\* latest total + latest new, lag = latest total, and date label = latest
\* observed week number + 1.
C6_SimulatedRow ==
    (pc \in {"simulate_done", "raised_ValueError"} /\ feat_dict = <<>>) =>
        /\ Len(sim_test) = Len(LatestRows)
        /\ \A i \in 1..Len(sim_test) :
               /\ sim_test[i].id = LatestRows[i].id
               /\ sim_test[i].total_prisoner_cases =
                      LatestRows[i].total_prisoner_cases
                          + LatestRows[i].new_prisoner_cases
               /\ sim_test[i].lag_prisoner_cases =
                      LatestRows[i].total_prisoner_cases
               /\ sim_test[i].as_of_date = LastWeek(dataset) + 1

\* simulate ran to its end without overrides on a latest week that has a
\* row with cases and new cases.
C6_Witness ==
    /\ pc = "simulate_done"
    /\ feat_dict = <<>>
    /\ \E i \in 1..Len(LatestRows) :
           /\ LatestRows[i].total_prisoner_cases > 0
           /\ LatestRows[i].new_prisoner_cases > 0

\* The earliest and the second-earliest week of the data set.
TwoEarliestWeeks ==
    {w \in WeeksOf(dataset) :
        Cardinality({v \in WeeksOf(dataset) : v < w}) < 2}

----------------------------------------------------------------------------
(* The model registry and the grid                                          *)

MaxFolds == 2

\* The parameters the grids set, at the values the constructors of MODELS
\* leave them (values are kept as the tokens Python renders them with).
DefaultParams ==
    [alpha |-> "1.0", fit_intercept |-> "True", normalize |-> "False",
     random_state |-> "None"]

\* MODELS: one shared instance per family, constructed without arguments.
NewModels(keys) == [f \in {keys[i] : i \in 1..Len(keys)} |-> DefaultParams]

\* A parameter dict of GRID for Lasso, Ridge and ElasticNet.
AlphaParam(a) == <<<<"alpha", a>>, <<"random_state", "0">>>>

\* The parameter dict of GRID for LinearRegression.
LinearParam == <<<<"normalize", "False">>, <<"fit_intercept", "True">>>>

\* Registries and grids handed to cross_validate: cuts of MODELS and GRID,
\* and a grid whose dicts do not all set the same parameters.
SearchSpaces ==
    {[keys |-> <<"LinearRegression", "Lasso">>,
      grid |-> [LinearRegression |-> <<LinearParam>>,
                Lasso |-> <<AlphaParam("1"), AlphaParam("10")>>]],
     [keys |-> <<"Ridge", "ElasticNet">>,
      grid |-> [Ridge |-> <<AlphaParam("1")>>,
                ElasticNet |-> <<AlphaParam("1")>>]],
     [keys |-> <<"Lasso">>,
      grid |-> [Lasso |-> <<<<<<"alpha", "10">>>>,
                            <<<<"fit_intercept", "False">>>>>>]]}

DegreeLists == {<<1>>, <<1, 2>>}

\* The two loops of run_grid_search, flattened: every (model, param) in the
\* order of models.keys() and of grid[model_key].
RECURSIVE CellsFrom(_, _, _)
CellsFrom(keys, g, k) ==
    IF k > Len(keys) THEN <<>>
    ELSE [i \in 1..Len(g[keys[k]]) |->
              [family |-> keys[k], param |-> g[keys[k]][i]]]
         \o CellsFrom(keys, g, k + 1)

Cells(keys, g) == CellsFrom(keys, g, 1)

----------------------------------------------------------------------------
(* fit_and_predict, evaluate_model, build_classifier                        *)

\* model.set_params(**param): the named parameters change, the others keep
\* the value the instance had.
SetParams(params, param) == ApplyItems(params, param)

\* str(model_type): the family with the parameters of the instance
StrModel(family, params) == <<family, params>>

\* model.fit(X_train, y_train); model.predict(X_test): the predictions are
\* determined by the family, the instance's parameters and the matrices.
Predictions(X_train, y_train, X_test, family, params) ==
    [estimator |-> family, params |-> params,
     X_train |-> X_train, y_train |-> y_train, X_test |-> X_test]

\* The three metrics are determined by y_test and the predictions.
EvaluateModel(y_test, predictions) ==
    [mse |-> <<"mse", y_test, predictions>>,
     mae |-> <<"mae", y_test, predictions>>,
     rss |-> <<"rss", y_test, predictions>>]

\* What the estimator may do with a fit or predict.
FitOutcomes == {"fitted", "raises"}

\* model_perf[key] = record: a dict keeps the place of a key it has.
Put(perf, key, rec) ==
    IF \E i \in 1..Len(perf) : perf[i].key = key
    THEN [i \in 1..Len(perf) |->
              IF perf[i].key = key THEN [key |-> key, val |-> rec] ELSE perf[i]]
    ELSE Append(perf, [key |-> key, val |-> rec])

\* The record build_classifier stores for one cell.
EvalRecord(dsg, family, params, param, time) ==
    LET m == EvaluateModel(dsg.y_test,
                 Predictions(dsg.X_train, dsg.y_train, dsg.X_test,
                             family, params))
    IN  [mse |-> m.mse, mae |-> m.mae, rss |-> m.rss, run_time |-> time,
         parameters |-> param, model_type |-> StrModel(family, params)]

NaNRecord(param, family, params, time) ==
    [mse |-> <<"nan">>, mae |-> <<"nan">>, rss |-> <<"nan">>, run_time |-> time,
     parameters |-> param, model_type |-> StrModel(family, params)]

AfterFitSwallowed(outcome, perf, key, rec) ==
    [raised |-> FALSE,
     perf |-> Put(perf, key,
                  IF outcome = "raises"
                  THEN NaNRecord(rec.parameters, key[1], key[2], rec.run_time)
                  ELSE rec)]

\* build_classifier has no handler around fit_and_predict: an error leaves
\* it before model_perf is updated.
AfterFit(outcome, perf, key, rec) ==
    IF outcome = "raises"
    THEN [raised |-> TRUE, perf |-> perf]
    ELSE [raised |-> FALSE, perf |-> Put(perf, key, rec)]

----------------------------------------------------------------------------
(* cross_validate and run_grid_search                                       *)

IdSeq(df) == [i \in 1..Len(df) |-> df[i].id]

\* poly.fit_transform(frame[features]): the expansion of the rows of the
\* frame by an expander of the degree, fitted on that frame.
PolyFitTransform(deg, df) ==
    [degree |-> deg, fitted_on |-> IdSeq(df), rows |-> IdSeq(df)]

\* frame[target]
TargetOf(df) == [i \in 1..Len(df) |-> <<df[i].id, df[i].total_prisoner_cases>>]

\* Lines 272-276 for one fold and one degree.
DesignOf(cv, deg) ==
    [X_train |-> PolyFitTransform(deg, cv.train), y_train |-> TargetOf(cv.train),
     X_test |-> PolyFitTransform(deg, cv.test), y_test |-> TargetOf(cv.test)]

StrOf(n) == <<"str", n>>
IntOf(str) == str[2]

\* pd.DataFrame(model_perf).transpose() with the two columns added
ModelCompare(perf, test_week, deg) ==
    [i \in 1..Len(perf) |->
        [index |-> perf[i].key,
         mse |-> perf[i].val.mse, mae |-> perf[i].val.mae,
         rss |-> perf[i].val.rss, run_time |-> perf[i].val.run_time,
         parameters |-> perf[i].val.parameters,
         model_type |-> perf[i].val.model_type,
         test_week |-> test_week, degree |-> StrOf(deg)]]

\* pd.concat of a list of frames
RECURSIVE Concat(_)
Concat(frames) ==
    IF frames = <<>> THEN <<>> ELSE Head(frames) \o Concat(Tail(frames))

\* str.extract(r"(\w+)\(") on the rendering of the instance
ExtractFamily(key) == key[1]

\* family + " " + "degree_" + degree + " " + str(parameters)
Label(family, deg, parameters) == <<family, "degree_", deg, parameters>>

\* Lines 282-289: the concatenated table with the column `model`.
CvDf(frames) ==
    LET all == Concat(frames)
    IN  [i \in 1..Len(all) |->
            [model |-> Label(ExtractFamily(all[i].index), IntOf(all[i].degree),
                             all[i].parameters),
             mse |-> all[i].mse, mae |-> all[i].mae, rss |-> all[i].rss,
             run_time |-> all[i].run_time, parameters |-> all[i].parameters,
             model_type |-> all[i].model_type,
             test_week |-> all[i].test_week, degree |-> IntOf(all[i].degree)]]

GridCells == Cells(model_keys, grid)

\* Lines 257-279: the next fold and degree; the matrices are built and
\* run_grid_search starts with an empty model_perf.
BeginGridSearch ==
    /\ pc = "cv_loop"
    /\ fi <= Len(temporal_splits)
    /\ design' = DesignOf(temporal_splits[fi], degrees[di])
    /\ model_perf' = <<>>
    /\ ci' = 1
    /\ pc' = "grid"
    /\ UNCHANGED <<dataset, splitVars, simVars, selVars, impVars,
                   cvInputs, models, fi, di,
                   cv_eval, cv_df, run, first_cv_df, elapsed, fit_raised>>

\* One call of build_classifier from the loops of run_grid_search.
BuildClassifier ==
    /\ pc = "grid"
    /\ ci <= Len(GridCells)
    /\ \E outcome \in FitOutcomes :
        LET family == GridCells[ci].family
            param == GridCells[ci].param
            params == SetParams(models[family], param)
            after == AfterFit(outcome, model_perf, StrModel(family, params),
                              EvalRecord(design, family, params, param, elapsed))
        IN  /\ models' = [models EXCEPT ![family] = params]
            /\ fit_raised' = (fit_raised \/ outcome = "raises")
            /\ model_perf' = after.perf
            /\ pc' = IF after.raised THEN "raised_FitFailure" ELSE "grid"
            /\ ci' = IF after.raised THEN ci ELSE ci + 1
    /\ UNCHANGED <<dataset, splitVars, simVars, selVars, impVars,
                   cvInputs, fi, di, design,
                   cv_eval, cv_df, run, first_cv_df, elapsed>>

\* Lines 336-340 and 280: the table of this grid search joins cv_eval.
RunGridSearchReturn ==
    /\ pc = "grid"
    /\ ci > Len(GridCells)
    /\ cv_eval' = Append(cv_eval,
                         ModelCompare(model_perf,
                                      temporal_splits[fi].test_week, degrees[di]))
    /\ IF di < Len(degrees)
       THEN di' = di + 1 /\ fi' = fi
       ELSE di' = 1 /\ fi' = fi + 1
    /\ pc' = "cv_loop"
    /\ UNCHANGED <<dataset, splitVars, simVars, selVars, impVars,
                   cvInputs, models, ci, design,
                   model_perf, cv_df, run, first_cv_df, elapsed, fit_raised>>

\* Lines 282-291; pd.concat raises ValueError on an empty list.
CrossValidateReturn ==
    /\ pc = "cv_loop"
    /\ fi > Len(temporal_splits)
    /\ \/ /\ cv_eval = <<>>
          /\ pc' = "raised_ValueError"
          /\ UNCHANGED cv_df
       \/ /\ cv_eval # <<>>
          /\ cv_df' = CvDf(cv_eval)
          /\ pc' = "cv_done"
    /\ UNCHANGED <<dataset, splitVars, simVars, selVars, impVars,
                   cvInputs, models, fi, di, ci,
                   design, model_perf, cv_eval, run, first_cv_df, elapsed,
                   fit_raised>>

\* The caller runs cross_validate again on the same arguments; MODELS still
\* holds the instances as the first call left them.
CrossValidateAgain ==
    /\ pc = "cv_done"
    /\ run = 1
    /\ first_cv_df' = cv_df
    /\ run' = 2
    /\ elapsed' \in 1..2
    /\ fi' = 1
    /\ di' = 1
    /\ ci' = 0
    /\ design' = <<>>
    /\ model_perf' = <<>>
    /\ cv_eval' = <<>>
    /\ cv_df' = <<>>
    /\ pc' = "cv_loop"
    /\ UNCHANGED <<dataset, splitVars, simVars, selVars, impVars,
                   cvInputs, models, fit_raised>>

\* A frame of n weeks, one row a week.
WeeklyFrame(n) == [i \in 1..n |-> Row(i, i, 0, 0, 0)]

InitCV ==
    /\ pc = "cv_loop"
    /\ dataset = <<>>
    /\ train = None
    /\ test = None
    /\ train_cv_splits = None
    /\ feat_dict = None
    /\ sim_test = <<>>
    /\ sim_train = <<>>
    /\ \E n \in 0..MaxFolds : temporal_splits = TimeCvSplitOf(WeeklyFrame(n + 2))
    /\ degrees \in DegreeLists
    /\ \E space \in SearchSpaces :
          /\ model_keys = space.keys
          /\ grid = space.grid
          /\ models = NewModels(space.keys)
    /\ fi = 1
    /\ di = 1
    /\ ci = 0
    /\ design = <<>>
    /\ model_perf = <<>>
    /\ cv_eval = <<>>
    /\ cv_df = <<>>
    /\ run = 1
    /\ first_cv_df = <<>>
    /\ elapsed \in 1..2
    /\ fit_raised = FALSE
    /\ best_from_feat = <<>>
    /\ best_type = <<>>
    /\ best_models = <<>>
    /\ ImpIdle

NextCV ==
    \/ BeginGridSearch
    \/ BuildClassifier
    \/ RunGridSearchReturn
    \/ CrossValidateReturn
    \/ CrossValidateAgain

SpecCV == InitCV /\ [][NextCV]_vars

----------------------------------------------------------------------------
(* Properties of cross_validate                                             *)

\* An evaluation table without its column run_time.
NoRunTime(table) == [i \in 1..Len(table) |-> [table[i] EXCEPT !.run_time = 0]]

\* C7: a second call of cross_validate on the same folds, degrees, registry
\* and grid returns the evaluation table of the first call, run_time aside.
C7_SecondRunIdentical ==
    (pc = "cv_done" /\ run = 2) => NoRunTime(cv_df) = NoRunTime(first_cv_df)

\* The number of grid searches the loops of cross_validate have completed.
GridSearchesDone == (fi - 1) * Len(degrees) + (di - 1)

\* C8: once a fit or predict has raised, the call of cross_validate has
\* ended with that error: no table is returned, cv_eval holds the tables of
\* the grid searches completed earlier and nothing of the aborted one, and
\* no record holds a substituted value.
C8_FitErrorPropagates ==
    fit_raised =>
        /\ pc = "raised_FitFailure"
        /\ cv_df = <<>>
        /\ Len(cv_eval) = GridSearchesDone
        /\ \A k \in 1..Len(cv_eval) :
               \A i \in 1..Len(cv_eval[k]) : cv_eval[k][i].mse # <<"nan">>
        /\ \A i \in 1..Len(model_perf) : model_perf[i].val.mse # <<"nan">>

\* A fit raised in the middle of a grid search, after a complete one.
C8_Witness ==
    /\ pc = "raised_FitFailure"
    /\ fit_raised
    /\ model_perf # <<>>
    /\ cv_eval # <<>>

\* C11: in every grid search the expansion of both matrices was fitted on
\* the rows of the fold's training frame: X_test is the test rows under the
\* expander fitted on train, and no expander was fitted on the test rows.
C11_ExpanderFittedOnTrainOnly ==
    pc = "grid" =>
        /\ design.X_train.fitted_on = IdSeq(temporal_splits[fi].train)
        /\ design.X_train.rows = IdSeq(temporal_splits[fi].train)
        /\ design.X_test.rows = IdSeq(temporal_splits[fi].test)
        /\ design.X_test.fitted_on = IdSeq(temporal_splits[fi].train)

\* The place in the evaluation table of the row of fold f, degree d, cell c.
RowOf(f, d, c) ==
    ((f - 1) * Len(degrees) + (d - 1)) * Len(GridCells) + c

\* C12: inside a grid search every cell handled so far has a record of its
\* own in model_perf (no key was used twice), and the table cross_validate
\* returns has exactly one row for every fold, degree and cell of the grid,
\* tagged with the fold's test_week and the degree.
C12_OneRowPerCombination ==
    /\ pc = "grid" => Len(model_perf) = ci - 1
    /\ pc = "cv_done" =>
           /\ Len(cv_df) = Len(temporal_splits) * Len(degrees) * Len(GridCells)
           /\ \A f \in 1..Len(temporal_splits) : \A d \in 1..Len(degrees) :
                  \A c \in 1..Len(GridCells) :
                      LET row == cv_df[RowOf(f, d, c)]
                      IN  /\ row.test_week = temporal_splits[f].test_week
                          /\ row.degree = degrees[d]
                          /\ row.model[1] = GridCells[c].family
                          /\ row.parameters = GridCells[c].param

----------------------------------------------------------------------------
(* evaluate_model on numbers                                                *)

MaxRes == 2

RECURSIVE SumSq(_)
SumSq(res) ==
    IF res = <<>> THEN 0 ELSE Head(res) * Head(res) + SumSq(Tail(res))

RECURSIVE SumAbs(_)
SumAbs(res) ==
    IF res = <<>> THEN 0
    ELSE (IF Head(res) < 0 THEN 0 - Head(res) ELSE Head(res)) + SumAbs(Tail(res))

\* evaluate_model on the residuals predictions - y_test.  The residual
\* vectors of the model below make both divisions exact.
Metrics(res) ==
    [mse |-> SumSq(res) \div Len(res),
     mae |-> SumAbs(res) \div Len(res),
     rss |-> SumSq(res)]

\* The record of build_classifier for a cell with the residuals res.
NumRecord(res, family, params, param) ==
    [mse |-> Metrics(res).mse, mae |-> Metrics(res).mae, rss |-> Metrics(res).rss,
     run_time |-> 0, parameters |-> param,
     model_type |-> StrModel(family, params)]

\* model_perf after the first k cells of run_grid_search, rs[c] being the
\* residuals of cell c.  Every dict of these grids sets the same parameters,
\* so an instance holds the defaults updated by the dict of the cell.
RECURSIVE PerfUpTo(_, _, _)
PerfUpTo(cells, rs, k) ==
    IF k = 0 THEN <<>>
    ELSE LET params == SetParams(DefaultParams, cells[k].param)
         IN  Put(PerfUpTo(cells, rs, k - 1),
                 StrModel(cells[k].family, params),
                 NumRecord(rs[k], cells[k].family, params, cells[k].param))

\* cv_eval at the end of the loops of cross_validate: one table per fold
\* and degree, res[f][j] being the residuals of the j-th cell of fold f.
NumCvEval(folds, degs, cells, res) ==
    [k \in 1..(Len(folds) * Len(degs)) |->
        LET f == ((k - 1) \div Len(degs)) + 1
            d == ((k - 1) % Len(degs)) + 1
            rs == [c \in 1..Len(cells) |-> res[f][(d - 1) * Len(cells) + c]]
        IN  ModelCompare(PerfUpTo(cells, rs, Len(cells)),
                         folds[f].test_week, degs[d])]

----------------------------------------------------------------------------
(* find_best_model                                                          *)

\* Python's order of the strings the labels are, for the labels of the
\* model: the family names differ at their first or second letter, a degree
\* is one digit, and of two dicts {'alpha': a, 'random_state': 0} the one
\* of alpha 1 renders before the one of alpha 10 ("1," < "10").
FamilyRank ==
    [ElasticNet |-> 1, Lasso |-> 2, LinearRegression |-> 3, Ridge |-> 4]

ParamRank(parameters) ==
    IF parameters = AlphaParam("1") THEN 1
    ELSE IF parameters = AlphaParam("10") THEN 2
    ELSE 3

LabelBefore(a, b) ==
    \/ FamilyRank[a[1]] < FamilyRank[b[1]]
    \/ /\ a[1] = b[1]
       /\ \/ a[3] < b[3]
          \/ a[3] = b[3] /\ ParamRank(a[4]) < ParamRank(b[4])

\* The keys of a groupby('model'), which sorts them.
RECURSIVE SortLabels(_)
SortLabels(S) ==
    IF S = {} THEN <<>>
    ELSE LET first == CHOOSE a \in S : \A b \in S \ {a} : LabelBefore(a, b)
         IN  <<first>> \o SortLabels(S \ {first})

LabelsOf(table) == {table[i].model : i \in 1..Len(table)}

RECURSIVE SumOf(_, _, _)
SumOf(table, label, metric) ==
    IF table = <<>> THEN 0
    ELSE (IF Head(table).model = label THEN Head(table)[metric] ELSE 0)
         + SumOf(Tail(table), label, metric)

CountOf(table, label) ==
    Cardinality({i \in 1..Len(table) : table[i].model = label})

\* The mean of a metric over the rows of a label, as <<sum, count>>.
MeanOf(table, label, metric) ==
    <<SumOf(table, label, metric), CountOf(table, label)>>

\* Means compared as fractions.
MeanLess(x, y) == x[1] * y[2] < y[1] * x[2]

\* cv_results.groupby('model').mean().reset_index()
ByModelMeans(table) ==
    LET labels == SortLabels(LabelsOf(table))
    IN  [k \in 1..Len(labels) |->
            [model |-> labels[k],
             mse |-> MeanOf(table, labels[k], "mse"),
             mae |-> MeanOf(table, labels[k], "mae"),
             rss |-> MeanOf(table, labels[k], "rss")]]

BestByMax(means, metric) ==
    LET IsMax(r) == \A j \in 1..Len(means) : ~MeanLess(r[metric], means[j][metric])
    IN  SelectSeq(means, IsMax)

\* by_model_means.loc[by_model_means[metric] == by_model_means[metric].min()]
BestBy(means, metric) ==
    LET IsMin(r) == \A j \in 1..Len(means) : ~MeanLess(means[j][metric], r[metric])
    IN  SelectSeq(means, IsMin)

FindBestModel(table) ==
    LET means == ByModelMeans(table)
    IN  BestBy(means, "mse") \o BestBy(means, "mae") \o BestBy(means, "rss")

----------------------------------------------------------------------------
(* run_temporal_cv, lines 212-224                                           *)

\* best_from_feat.groupby('model').size().to_frame() after reset_index: one
\* row per label of the pool, in the order of the labels, indexed from 0.
Tally(best) ==
    LET labels == SortLabels(LabelsOf(best))
    IN  [k \in 1..Len(labels) |->
            [index |-> k - 1, model |-> labels[k],
             count |-> CountOf(best, labels[k])]]

\* sort_values('count', ascending=False): the rows move, each keeps its index.
RECURSIVE SortByCount(_)
SortByCount(frame) ==
    IF frame = <<>> THEN <<>>
    ELSE LET top == CHOOSE i \in 1..Len(frame) :
                        /\ \A j \in 1..Len(frame) : frame[j].count <= frame[i].count
                        /\ \A j \in 1..(i - 1) : frame[j].count < frame[i].count
             rest == [j \in 1..(Len(frame) - 1) |->
                         IF j < top THEN frame[j] ELSE frame[j + 1]]
         IN  <<frame[top]>> \o SortByCount(rest)

\* frame.loc[0]: the row whose index is 0, wherever the sort has put it
LocZero(frame) == CHOOSE r \in {frame[i] : i \in 1..Len(frame)} : r.index = 0

BestRowsByFamily(table, label) ==
    LET Same(r) == r.model[1] = label[1] IN SelectSeq(table, Same)

\* cv_df.loc[cv_df['model'] == best_single, ...]
BestRows(table, label) ==
    LET Same(r) == r.model = label IN SelectSeq(table, Same)

\* best_model['model'].split()[0]
SplitFirst(label) == label[1]

\* The body of the loop of run_temporal_cv after cross_validate returned.
RunTemporalCvSelect ==
    /\ pc = "cv_done"
    /\ LET best == FindBestModel(cv_df)
           tally == SortByCount(Tally(best))
           best_single == LocZero(tally).model
           best_model == BestRows(cv_df, best_single)[1]
       IN  /\ best_from_feat' = best
           /\ best_type' = tally
           /\ best_models' = [degree |-> best_model.degree,
                              params |-> best_model.parameters,
                              model_type |-> SplitFirst(best_model.model)]
    /\ pc' = "selected"
    /\ UNCHANGED <<dataset, splitVars, simVars, cvVars, impVars>>

\* Registries, grids and degree lists handed to cross_validate: cuts of
\* MODELS, GRID and DEGREES.
SelectSpaces ==
    {[keys |-> <<"Lasso">>,
      grid |-> [Lasso |-> <<AlphaParam("1"), AlphaParam("10")>>],
      degrees |-> <<1>>],
     [keys |-> <<"Lasso", "ElasticNet">>,
      grid |-> [Lasso |-> <<AlphaParam("1")>>,
                ElasticNet |-> <<AlphaParam("1")>>],
      degrees |-> <<1>>],
     [keys |-> <<"Ridge">>,
      grid |-> [Ridge |-> <<AlphaParam("1")>>],
      degrees |-> <<1, 2>>]}

\* The residuals of a test set of n rows whose predictions are all off by r.
Residuals(n, r) == [i \in 1..n |-> r]

\* A frame of n weeks in which more facilities report week after week: one
\* row a week up to week 3, then one more every week.
RECURSIVE GrowingFrame(_)
GrowingFrame(n) ==
    IF n = 0 THEN <<>>
    ELSE LET before == GrowingFrame(n - 1)
         IN  before \o [i \in 1..(IF n <= 3 THEN 1 ELSE n - 2) |->
                            Row(Len(before) + i, n, 0, 0, 0)]

InitSelect ==
    /\ dataset = <<>>
    /\ train = None
    /\ test = None
    /\ train_cv_splits = None
    /\ feat_dict = None
    /\ sim_test = <<>>
    /\ sim_train = <<>>
    /\ \E n \in 1..MaxFolds : \E space \in SelectSpaces :
       \E off \in [1..n -> [1..(Len(space.degrees) * Len(Cells(space.keys, space.grid)))
                               -> 0..MaxRes]] :
          /\ temporal_splits = TimeCvSplitOf(GrowingFrame(n + 2))
          /\ degrees = space.degrees
          /\ model_keys = space.keys
          /\ grid = space.grid
          /\ models = NewModels(space.keys)
          /\ cv_eval = NumCvEval(temporal_splits, space.degrees,
                                 Cells(space.keys, space.grid),
                                 [f \in 1..n |->
                                    [j \in DOMAIN off[f] |->
                                        Residuals(Len(temporal_splits[f].test),
                                                  off[f][j])]])
          /\ cv_df = CvDf(cv_eval)
          /\ fi = n + 1
    /\ di = 1
    /\ ci = 0
    /\ design = <<>>
    /\ model_perf = <<>>
    /\ run = 1
    /\ first_cv_df = <<>>
    /\ elapsed = 0
    /\ fit_raised = FALSE
    /\ best_from_feat = <<>>
    /\ best_type = <<>>
    /\ best_models = <<>>
    /\ ImpIdle
    /\ pc = "cv_done"

NextSelect == RunTemporalCvSelect

SpecSelect == InitSelect /\ [][NextSelect]_vars

----------------------------------------------------------------------------
(* Properties of the selection                                              *)

\* The families of the labels of the evaluation table.
FamiliesOf(table) == {table[i].model[1] : i \in 1..Len(table)}

\* Occurrences of a family in the pool find_best_model returned.
FamilyCount(family) ==
    Cardinality({i \in 1..Len(best_from_feat) :
                    best_from_feat[i].model[1] = family})

\* C4: the labels of minimum mean mse, mae or rss are pooled, a label once
\* per metric it wins; occurrences are counted per model family; the family
\* with the highest count is the winning family.
C4_MostFrequentFamilyWins ==
    pc = "selected" =>
        \A family \in FamiliesOf(cv_df) :
            FamilyCount(family) <= FamilyCount(best_models.model_type)

\* A label whose three means are each strictly below those of every other
\* label of the table.
StrictlyBest(label) ==
    \A other \in LabelsOf(cv_df) \ {label} :
        \A metric \in {"mse", "mae", "rss"} :
            MeanLess(MeanOf(cv_df, label, metric), MeanOf(cv_df, other, metric))

\* C5: a label strictly best on mse, mae and rss is the one label
\* find_best_model returns, once for each metric, and its family is the
\* winning family.
C5_StrictlyBestLabelWins ==
    pc = "selected" =>
        \A label \in LabelsOf(cv_df) :
            StrictlyBest(label) =>
                /\ Len(best_from_feat) = 3
                /\ \A i \in 1..3 : best_from_feat[i].model = label
                /\ best_models.model_type = label[1]

\* The strictly best label is not the first label in the order of the
\* labels, and not of the first rows of the table.
C5_Witness ==
    /\ pc = "selected"
    /\ \E label \in LabelsOf(cv_df) :
           /\ StrictlyBest(label)
           /\ \E other \in LabelsOf(cv_df) : LabelBefore(other, label)
           /\ cv_df[1].model # label

\* The first row of the evaluation table that satisfies Same.
FirstRowOf(table, Same(_)) ==
    table[CHOOSE i \in 1..Len(table) :
              /\ Same(table[i])
              /\ \A j \in 1..(i - 1) : ~Same(table[j])]

\* C10 as stated: the winning configuration has the degree and the
\* hyperparameters of the first row of the evaluation table among all rows
\* of the winning model family.
C10_FirstRowOfFamily ==
    pc = "selected" =>
        LET OfFamily(r) == r.model[1] = best_models.model_type
            first == FirstRowOf(cv_df, OfFamily)
        IN  /\ best_models.degree = first.degree
            /\ best_models.params = first.parameters

\* The label run_temporal_cv selects: the one at index 0 of the tally.
BestSingle == LocZero(best_type).model

\* C10 amended: the winning configuration has the degree and the
\* hyperparameters of the first row of the evaluation table among the rows
\* whose label is the selected label (best_single), and these are the degree
\* and the hyperparameters that label names.
C10_FirstRowOfLabel ==
    pc = "selected" =>
        LET OfLabel(r) == r.model = BestSingle
            first == FirstRowOf(cv_df, OfLabel)
        IN  /\ best_models.degree = first.degree
            /\ best_models.params = first.parameters
            /\ best_models.degree = BestSingle[3]
            /\ best_models.params = BestSingle[4]
            /\ best_models.model_type = BestSingle[1]

\* The selected label is not the label of the first row of its family.
C10_Witness ==
    /\ pc = "selected"
    /\ \E i \in 1..Len(cv_df) :
           /\ cv_df[i].model[1] = BestSingle[1]
           /\ cv_df[i].model # BestSingle
           /\ \A j \in 1..(i - 1) : cv_df[j].model[1] # BestSingle[1]

----------------------------------------------------------------------------
(* get_feature_importance                                                   *)

MaxDegree == 2
MaxFeat == 2

\* if degree: None and 0 are falsy
Truthy(deg) == deg # <<>> /\ deg[1] # 0

\* '{}^{}'.format(feat, deg)
PowerLabel(feat, deg) == <<feat, "^", deg>>

\* The label '1' of the bias column
BiasLabel == <<"1">>

\* for deg in range(start, last + 1): feature_list.extend(...)
RECURSIVE ExtendLabels(_, _, _, _)
ExtendLabels(list, feats, deg, last) ==
    IF deg > last THEN list
    ELSE ExtendLabels(list \o [i \in 1..Len(feats) |-> PowerLabel(feats[i], deg)],
                      feats, deg + 1, last)

FeatureListByFeature(deg, feats) ==
    LET d == IF Truthy(deg) THEN deg[1] ELSE 1
    IN  (IF Truthy(deg) THEN <<BiasLabel>> ELSE <<>>)
        \o [k \in 1..(d * Len(feats)) |->
               PowerLabel(feats[((k - 1) \div d) + 1], ((k - 1) % d) + 1)]

\* Lines 522-528: the labels, before the fit.
FeatureList(deg, feats) ==
    IF Truthy(deg)
    THEN ExtendLabels(<<BiasLabel>>, feats, 1, deg[1])
    ELSE ExtendLabels(<<>>, feats, 1, 1)

Abs(x) == IF x < 0 THEN 0 - x ELSE x

\* Lines 535-537: the frame of labels and absolute coefficients.
FeatShrink(labels, coefs) ==
    [i \in 1..Len(labels) |->
        [Features |-> labels[i], Coefficients |-> Abs(coefs[i])]]

\* sort_values(by='Coefficients', ascending=False).  Rows of equal
\* coefficient are left in frame order; in the coefficient vectors drawn
\* here equal coefficients are all under the threshold.
RECURSIVE SortByCoefficient(_)
SortByCoefficient(frame) ==
    IF frame = <<>> THEN <<>>
    ELSE LET top == CHOOSE i \in 1..Len(frame) :
                      /\ \A j \in 1..Len(frame) :
                             frame[j].Coefficients <= frame[i].Coefficients
                      /\ \A j \in 1..(i - 1) :
                             frame[j].Coefficients < frame[i].Coefficients
             rest == [j \in 1..(Len(frame) - 1) |->
                         IF j < top THEN frame[j] ELSE frame[j + 1]]
         IN  <<frame[top]>> \o SortByCoefficient(rest)

\* 0.001, in thousandths
Threshold == 1

\* Lines 538-541: sorted, then the rows over the threshold.
KeyImportances(frame) ==
    LET Over(r) == r.Coefficients > Threshold
    IN  SelectSeq(SortByCoefficient(frame), Over)

\* One call of get_feature_importance.  The labels are built first; the fit
\* raises ValueError on a matrix without columns, and pd.DataFrame raises
\* ValueError when there are not as many coefficients as labels.
GetFeatureImportance ==
    /\ pc = "start"
    /\ feature_list' = FeatureList(degree, features)
    /\ models' = [models EXCEPT ![test_model] = SetParams(@, best_params)]
    /\ IF coef = <<>> \/ Len(coef) # Len(FeatureList(degree, features))
       THEN /\ pc' = "raised_ValueError"
            /\ UNCHANGED key_importances
       ELSE /\ key_importances' =
                   KeyImportances(FeatShrink(FeatureList(degree, features), coef))
            /\ pc' = "importance_done"
    /\ UNCHANGED <<dataset, splitVars, simVars, selVars, cvInputs, fi, di, ci,
                   design, model_perf, cv_eval, cv_df, run, first_cv_df,
                   elapsed, fit_raised, features, degree, test_model,
                   best_params, coef>>

----------------------------------------------------------------------------
(* Specification of the feature-importance extractor                        *)

FeatureNames == {"a", "b", "c"}

\* Lists of distinct feature names
FeatureLists ==
    UNION {{fs \in [1..n -> FeatureNames] :
               \A i, j \in 1..n : fs[i] = fs[j] => i = j} : n \in 0..MaxFeat}

\* None, or an integer degree
DegreeArgs == {<<>>} \cup {<<d>> : d \in 0..MaxDegree}

\* The number of columns X_train may have
MaxCols == 1 + MaxDegree * MaxFeat

\* Coefficient vectors of n columns: rising from 0, falling to 0 below 0,
\* and all 0.
CoefVectors(n) ==
    {[i \in 1..n |-> i - 1], [i \in 1..n |-> i - n], [i \in 1..n |-> 0]}

InitImp ==
    /\ pc = "start"
    /\ dataset = <<>>
    /\ train = None
    /\ test = None
    /\ train_cv_splits = None
    /\ feat_dict = None
    /\ sim_test = <<>>
    /\ sim_train = <<>>
    /\ temporal_splits = <<>>
    /\ degrees = <<>>
    /\ model_keys = <<"Lasso">>
    /\ grid = <<>>
    /\ models = NewModels(<<"Lasso">>)
    /\ fi = 0
    /\ di = 0
    /\ ci = 0
    /\ design = <<>>
    /\ model_perf = <<>>
    /\ cv_eval = <<>>
    /\ cv_df = <<>>
    /\ run = 0
    /\ first_cv_df = <<>>
    /\ elapsed = 0
    /\ fit_raised = FALSE
    /\ best_from_feat = <<>>
    /\ best_type = <<>>
    /\ best_models = <<>>
    /\ features \in FeatureLists
    /\ degree \in DegreeArgs
    /\ test_model = "Lasso"
    /\ best_params = AlphaParam("10")
    /\ \E n \in 0..MaxCols : coef \in CoefVectors(n)
    /\ feature_list = <<>>
    /\ key_importances = <<>>

NextImp == GetFeatureImportance

SpecImp == InitImp /\ [][NextImp]_vars

\* C13: with a truthy degree d and n features the labels built are the bias
\* label '1', then for every power p from 1 to d in increasing order the
\* label '{feature}^{p}' of every feature in list order, 1 + d*n in all; for
\* degree 2 and features a, b they are '1', 'a^1', 'b^1', 'a^2', 'b^2'.
C13_LabelsInPowerOrder ==
    (pc \in {"importance_done", "raised_ValueError"} /\ Truthy(degree)) =>
        LET d == degree[1]
            n == Len(features)
        IN  /\ Len(feature_list) = 1 + d * n
            /\ feature_list[1] = <<"1">>
            /\ \A p \in 1..d : \A i \in 1..n :
                   feature_list[1 + (p - 1) * n + i] = <<features[i], "^", p>>
            /\ (d = 2 /\ features = <<"a", "b">>) =>
                   feature_list = <<<<"1">>, <<"a", "^", 1>>, <<"b", "^", 1>>,
                                    <<"a", "^", 2>>, <<"b", "^", 2>>>>

\* The call of the scenario: degree 2 and features a, b, with as many
\* coefficients as labels.
C13_Witness ==
    /\ pc = "importance_done"
    /\ degree = <<2>>
    /\ features = <<"a", "b">>
    /\ Len(feature_list) = 5


====
